---- MODULE Spec2Model ----
(***************************************************************************)
(* A model of steps/step19.py: the define-by-run automatic differentiation *)
(* engine (Variable, Function, Square, Add, using_config / no_grad).       *)
(* Variables and Functions are heap objects; they are modelled as two      *)
(* sequences V and F indexed by object identity (creation order).  Arrays  *)
(* are scalars (rank 0), values are integers.                              *)
(***************************************************************************)
EXTENDS Integers, Sequences, FiniteSets, TLC

\* ---- bounds of the model ------------------------------------------------
\* Variables of a run of Spec / of GraphSpec / of TermSpec / of TwiceSpec
MaxVars == 3
MaxNodes == 4
MaxTermNodes == 3
MaxTwiceNodes == 4
\* the leaf value of DiamondSpec ranges over -MaxX..MaxX
MaxX == 3
\* nesting depth of using_config scopes
MaxScopes == 2
\* backward calls of a run
MaxCalls == 1

\* x = Variable(np.array(2.0), 'x'): the leaf value of the other
\* specifications
DemoData == 2
LeafData == {DemoData}
XSet == (0 - MaxX)..MaxX

\* ---- representation of Python's None ------------------------------------
\* an object reference that is None (Variable.creator)
None == 0
\* a gradient that is None; a set gradient g is <<g>>
NoGrad == << >>
\* an attribute a Function instance does not have (never assigned)
NoAttr == 0 - 1

VARIABLES
    enable_backprop,  \* Config.enable_backprop
    scopes,           \* the active using_config frames, innermost last
    exc,              \* TRUE while an exception propagates
    V,                \* the Variable objects
    F,                \* the Function objects
    pc,               \* "idle"; "loop": inside Variable.backward; "done": it
                      \* has returned; "raised": it was left by an exception
    self,             \* Variable.backward: the terminal node
    retain_grad,      \* Variable.backward: its argument
    funcs,            \* Variable.backward: the worklist
    seen_set,         \* Variable.backward: the enqueued functions
    processed,        \* the functions popped by this call, in order
    start,            \* the gradients of the Variables when it was called
    calls,            \* number of backward calls started
    unwound           \* scopes left so far by the propagating exception

vars == <<enable_backprop, scopes, exc, V, F, pc, self, retain_grad, funcs,
          seen_set, processed, start, calls, unwound>>

\* ---- helpers --------------------------------------------------------------
Range(s) == {s[i] : i \in DOMAIN s}

\* variant of max: the minimum of the input priorities
RECURSIVE min(_)
min(s) ==
    IF Len(s) = 1 THEN s[1]
    ELSE LET m == min(Tail(s)) IN IF s[1] <= m THEN s[1] ELSE m

\* max([x.priority for x in inputs])
RECURSIVE max(_)
max(s) ==
    IF Len(s) = 1 THEN s[1]
    ELSE LET m == max(Tail(s)) IN IF s[1] >= m THEN s[1] ELSE m

\* list.insert position of a stable sort: x goes after every element whose
\* key is <= its own
RECURSIVE InsertByPriority(_, _, _)
InsertByPriority(s, x, Fs) ==
    IF s = << >> THEN <<x>>
    ELSE IF Fs[Head(s)].priority <= Fs[x].priority
         THEN <<Head(s)>> \o InsertByPriority(Tail(s), x, Fs)
         ELSE <<x>> \o s

\* variant of sort: the worklist stays in insertion order
unsorted(s, Fs) == s

\* funcs.sort(key=lambda x: x.priority): a stable ascending sort
RECURSIVE sort(_, _)
sort(s, Fs) ==
    IF s = << >> THEN << >>
    ELSE InsertByPriority(sort(SubSeq(s, 1, Len(s) - 1), Fs), s[Len(s)], Fs)

\* variant of add_func: no seen_set test
add_func_dup(fs, seen, f, Fs) ==
    [funcs |-> sort(Append(fs, f), Fs), seen_set |-> seen \cup {f}]

\* add_func of Variable.backward, on the pair <<funcs, seen_set>>
add_func(fs, seen, f, Fs) ==
    IF f \notin seen
    THEN [funcs |-> sort(Append(fs, f), Fs), seen_set |-> seen \cup {f}]
    ELSE [funcs |-> fs, seen_set |-> seen]

\* Square.forward / Add.forward
forward(kind, xs) ==
    IF kind = "Square" THEN xs[1] * xs[1] ELSE xs[1] + xs[2]

\* Variable.__init__
Variable(d) == [data |-> d, grad |-> NoGrad, creator |-> None, priority |-> 0]

\* variant of set_creator: the output takes the priority of its creator
set_creator_same(v, f, Fs) ==
    [v EXCEPT !.creator = f, !.priority = Fs[f].priority]

\* Variable.set_creator
set_creator(v, f, Fs) == [v EXCEPT !.creator = f, !.priority = Fs[f].priority + 1]

\* variant of cleargrad: the gradient becomes zero instead of None
cleargradZero(v) == [v EXCEPT !.grad = <<0>>]

\* Variable.cleargrad
cleargrad(v) == [v EXCEPT !.grad = NoGrad]

\* np.ones_like(self.data) for a rank-0 array
ones_like(d) == 1

\* ---- the initial state ----------------------------------------------------
InitCall ==
    /\ pc = "idle"
    /\ self = None
    /\ retain_grad = FALSE
    /\ funcs = << >>
    /\ seen_set = {}
    /\ processed = << >>
    /\ start = << >>

Init ==
    /\ enable_backprop = TRUE
    /\ scopes = << >>
    /\ exc = FALSE
    /\ V = << >>
    /\ F = << >>
    /\ InitCall
    /\ calls = 0
    /\ unwound = 0

\* the locals of a finished backward call are gone once the program goes on
EndCall ==
    /\ pc' = "idle"
    /\ self' = None
    /\ retain_grad' = FALSE
    /\ funcs' = << >>
    /\ seen_set' = {}
    /\ processed' = << >>
    /\ start' = << >>

Running == pc # "loop" /\ ~exc

\* ---- using_config / no_grad ----------------------------------------------
\* with using_config('enable_backprop', value): the generator runs to yield
EnterScope(value) ==
    /\ Running
    /\ scopes' = Append(scopes, [old_value |-> enable_backprop, value |-> value])
    /\ enable_backprop' = value
    /\ EndCall
    /\ UNCHANGED <<exc, V, F, calls, unwound>>

\* variant of Restored: the class default instead of old_value
RestoredDefault(frame) == TRUE

\* the value the finally clause writes back
Restored(frame) == frame.old_value

\* the with block is left, normally or by a propagating exception: finally
ExitScope ==
    /\ pc # "loop"
    /\ scopes # << >>
    /\ enable_backprop' = Restored(scopes[Len(scopes)])
    /\ scopes' = SubSeq(scopes, 1, Len(scopes) - 1)
    /\ unwound' = IF exc THEN unwound + 1 ELSE unwound
    /\ EndCall
    /\ UNCHANGED <<exc, V, F, calls>>

\* the block of a with statement raises
Raise ==
    /\ Running
    /\ scopes # << >>
    /\ exc' = TRUE
    /\ EndCall
    /\ UNCHANGED <<enable_backprop, scopes, V, F, calls, unwound>>

\* an except clause of the caller handles the exception
Catch ==
    /\ exc
    /\ exc' = FALSE
    /\ unwound' = 0
    /\ EndCall
    /\ UNCHANGED <<enable_backprop, scopes, V, F, calls>>

\* ---- building the graph ---------------------------------------------------
\* x = Variable(np.array(d))
NewVariable(d) ==
    /\ Running
    /\ V' = Append(V, Variable(d))
    /\ EndCall
    /\ UNCHANGED <<enable_backprop, scopes, exc, F, calls, unwound>>

\* variant of Recording: the flag is not consulted
RecordingAlways == TRUE

\* if config.enable_backprop: the graph is recorded
Recording == enable_backprop

\* variant of Call: set_creator is also called on the inputs
CallLinkInputs(kind, inputs) ==
    /\ Running
    /\ LET f == Len(F) + 1
           xs == [i \in DOMAIN inputs |-> V[inputs[i]].data]
           output == Variable(forward(kind, xs))
           o == Len(V) + 1
           fresh == [kind |-> kind, priority |-> NoAttr,
                     inputs |-> << >>, outputs |-> << >>]
       IN  IF Recording
           THEN LET withPriority ==
                       [fresh EXCEPT !.priority =
                           max([i \in DOMAIN inputs |-> V[inputs[i]].priority])]
                    Fs == Append(F, withPriority)
                    linked == [i \in DOMAIN V |->
                                 IF i \in Range(inputs)
                                 THEN set_creator(V[i], f, Fs) ELSE V[i]]
                IN  /\ V' = Append(linked, set_creator(output, f, Fs))
                    /\ F' = Append(F, [withPriority EXCEPT !.inputs = inputs,
                                                           !.outputs = <<o>>])
           ELSE /\ V' = Append(V, output)
                /\ F' = Append(F, fresh)
    /\ EndCall
    /\ UNCHANGED <<enable_backprop, scopes, exc, calls, unwound>>

\* Function.__call__ on a fresh instance: square(x) / add(x0, x1)
Call(kind, inputs) ==
    /\ Running
    /\ LET f == Len(F) + 1
           xs == [i \in DOMAIN inputs |-> V[inputs[i]].data]
           output == Variable(forward(kind, xs))
           o == Len(V) + 1
           fresh == [kind |-> kind, priority |-> NoAttr,
                     inputs |-> << >>, outputs |-> << >>]
       IN  IF Recording
           THEN LET withPriority ==
                       [fresh EXCEPT !.priority =
                           max([i \in DOMAIN inputs |-> V[inputs[i]].priority])]
                    Fs == Append(F, withPriority)
                IN  /\ V' = Append(V, set_creator(output, f, Fs))
                    /\ F' = Append(F, [withPriority EXCEPT !.inputs = inputs,
                                                           !.outputs = <<o>>])
           ELSE /\ V' = Append(V, output)
                /\ F' = Append(F, fresh)
    /\ EndCall
    /\ UNCHANGED <<enable_backprop, scopes, exc, calls, unwound>>

\* x.cleargrad()
ClearGrad(v) ==
    /\ Running
    /\ V' = [V EXCEPT ![v] = cleargrad(V[v])]
    /\ EndCall
    /\ UNCHANGED <<enable_backprop, scopes, exc, F, calls, unwound>>

\* ---- Variable.backward ----------------------------------------------------
\* variant of backward: Square.backward returns x * gy
backwardNoFactor(f, gys, Vs) ==
    IF f.kind = "Square"
    THEN IF gys[1] = NoGrad
         THEN [raised |-> TRUE, gxs |-> << >>]
         ELSE [raised |-> FALSE,
               gxs |-> << <<Vs[f.inputs[1]].data * gys[1][1]>> >>]
    ELSE [raised |-> FALSE, gxs |-> <<gys[1], gys[1]>>]

\* Square.backward / Add.backward on the output gradients gys; a None
\* operand of the arithmetic of Square.backward is a TypeError
backward(f, gys, Vs) ==
    IF f.kind = "Square"
    THEN IF gys[1] = NoGrad
         THEN [raised |-> TRUE, gxs |-> << >>]
         ELSE [raised |-> FALSE,
               gxs |-> << <<2 * Vs[f.inputs[1]].data * gys[1][1]>> >>]
    ELSE [raised |-> FALSE, gxs |-> <<gys[1], gys[1]>>]

\* variant of accumulate: x.grad = gx in both branches
overwrite(grad, gx) == gx

\* x.grad = gx if x.grad is None else x.grad + gx (both operands set)
accumulate(grad, gx) ==
    IF grad = NoGrad THEN gx ELSE <<grad[1] + gx[1]>>

\* the for loop over zip(f.inputs, gxs), from its i-th iteration on; st holds
\* the Variables, the worklist and whether x.grad + gx has raised TypeError
RECURSIVE Propagate(_, _, _, _, _)
Propagate(st, inputs, gxs, i, Fs) ==
    IF i > Len(inputs) \/ i > Len(gxs) \/ st.raised THEN st
    ELSE LET x == inputs[i]
             gx == gxs[i]
         IN  IF st.V[x].grad # NoGrad /\ gx = NoGrad
             THEN [st EXCEPT !.raised = TRUE]
             ELSE LET Vs == [st.V EXCEPT ![x].grad = accumulate(@, gx)]
                      a == IF Vs[x].creator # None
                           THEN add_func(st.funcs, st.seen_set, Vs[x].creator, Fs)
                           ELSE [funcs |-> st.funcs, seen_set |-> st.seen_set]
                  IN  Propagate([V |-> Vs, funcs |-> a.funcs,
                                 seen_set |-> a.seen_set, raised |-> FALSE],
                                inputs, gxs, i + 1, Fs)

\* y.cleargrad() for every y of a sequence
RECURSIVE ClearAll(_, _)
ClearAll(Vs, ys) ==
    IF ys = << >> THEN Vs
    ELSE ClearAll([Vs EXCEPT ![Head(ys)] = cleargrad(@)], Tail(ys))

\* variant of ClearOutputs: the outputs are also cut off from their creator
RECURSIVE Unchain(_, _)
Unchain(Vs, ys) ==
    IF ys = << >> THEN Vs
    ELSE Unchain([Vs EXCEPT ![Head(ys)] =
                     [cleargrad(@) EXCEPT !.creator = None]], Tail(ys))

ClearAndUnchain(Vs, f) == Unchain(Vs, f.outputs)

\* variant of ClearOutputs: no gradient is cleared
ClearNone(Vs, f) == Vs

\* variant of ClearOutputs: the loop runs over f.inputs
ClearInputs(Vs, f) == ClearAll(Vs, f.inputs)

\* if not retain_grad: for y in f.outputs: y.cleargrad()
ClearOutputs(Vs, f) == ClearAll(Vs, f.outputs)

\* y.backward(retain_grad) up to the while loop: the seed gradient and
\* add_func(self.creator).  For a leaf, add_func(None) appends None and the
\* sort key None.priority raises AttributeError.
BackwardStart(v, retain) ==
    /\ Running
    /\ calls' = calls + 1
    /\ V' = IF V[v].grad = NoGrad
            THEN [V EXCEPT ![v].grad = <<ones_like(V[v].data)>>]
            ELSE V
    /\ self' = v
    /\ retain_grad' = retain
    /\ processed' = << >>
    /\ start' = [i \in DOMAIN V |-> V[i].grad]
    /\ IF V[v].creator = None
       THEN /\ pc' = "raised"
            /\ exc' = TRUE
            /\ funcs' = <<None>>
            /\ seen_set' = {None}
       ELSE LET a == add_func(<< >>, {}, V[v].creator, F)
            IN  /\ pc' = "loop"
                /\ exc' = exc
                /\ funcs' = a.funcs
                /\ seen_set' = a.seen_set
    /\ UNCHANGED <<enable_backprop, scopes, F, unwound>>

\* one iteration of the while loop
BackwardLoop ==
    /\ pc = "loop"
    /\ funcs # << >>
    /\ LET f == funcs[Len(funcs)]
           rest == SubSeq(funcs, 1, Len(funcs) - 1)
           gys == [i \in DOMAIN F[f].outputs |-> V[F[f].outputs[i]].grad]
           r == backward(F[f], gys, V)
           st == IF r.raised
                 THEN [V |-> V, funcs |-> rest, seen_set |-> seen_set,
                       raised |-> TRUE]
                 ELSE Propagate([V |-> V, funcs |-> rest,
                                 seen_set |-> seen_set, raised |-> FALSE],
                                F[f].inputs, r.gxs, 1, F)
       IN  /\ processed' = Append(processed, f)
           /\ funcs' = st.funcs
           /\ seen_set' = st.seen_set
           /\ IF st.raised
              THEN /\ V' = st.V
                   /\ pc' = "raised"
                   /\ exc' = TRUE
              ELSE /\ V' = IF retain_grad THEN st.V
                           ELSE ClearOutputs(st.V, F[f])
                   /\ pc' = "loop"
                   /\ exc' = exc
    /\ UNCHANGED <<enable_backprop, scopes, F, self, retain_grad, start,
                   calls, unwound>>

\* the worklist is empty: the while loop ends and backward returns
BackwardReturn ==
    /\ pc = "loop"
    /\ funcs = << >>
    /\ pc' = "done"
    /\ UNCHANGED <<enable_backprop, scopes, exc, V, F, self, retain_grad,
                   funcs, seen_set, processed, start, calls, unwound>>

\* ---- the specifications ---------------------------------------------------
\* input tuples of an operation over the existing Variables
Inputs(kind) ==
    IF kind = "Square" THEN {<<i>> : i \in 1..Len(V)}
    ELSE {<<i, j>> : i \in 1..Len(V), j \in 1..Len(V)}

Next ==
    \/ \E value \in BOOLEAN : Len(scopes) < MaxScopes /\ EnterScope(value)
    \/ ExitScope
    \/ Raise
    \/ Catch
    \/ \E d \in LeafData : Len(V) < MaxVars /\ NewVariable(d)
    \/ \E kind \in {"Square", "Add"} : \E inputs \in Inputs(kind) :
          Len(V) < MaxVars /\ Call(kind, inputs)
    \/ \E v \in 1..Len(V) : ClearGrad(v)
    \/ \E v \in 1..Len(V) : \E retain \in BOOLEAN :
          calls < MaxCalls /\ BackwardStart(v, retain)
    \/ BackwardLoop
    \/ BackwardReturn

Spec == Init /\ [][Next]_vars

\* the module-level demo: x = Variable(np.array(x0)); t = square(x);
\* y = add(square(t), square(t)); y.backward(retain_grad)
DiamondInit ==
    /\ enable_backprop = TRUE
    /\ scopes = << >>
    /\ exc = FALSE
    /\ \E x0 \in XSet : V = <<Variable(x0)>>
    /\ F = << >>
    /\ InitCall
    /\ calls = 0
    /\ unwound = 0

DiamondNext ==
    \/ Len(V) = 1 /\ Call("Square", <<1>>)
    \/ Len(V) \in {2, 3} /\ Call("Square", <<2>>)
    \/ Len(V) = 4 /\ Call("Add", <<3, 4>>)
    \/ \E retain \in BOOLEAN :
          Len(V) = 5 /\ calls = 0 /\ BackwardStart(5, retain)
    \/ BackwardLoop
    \/ BackwardReturn

DiamondSpec == DiamondInit /\ [][DiamondNext]_vars

\* graphs of up to MaxNodes Variables built with the flag enabled, and
\* backward calls on any of their nodes
GraphNext ==
    \/ \E d \in LeafData : Len(V) < MaxNodes /\ NewVariable(d)
    \/ \E kind \in {"Square", "Add"} : \E inputs \in Inputs(kind) :
          Len(V) < MaxNodes /\ Call(kind, inputs)
    \/ \E v \in 1..Len(V) : \E retain \in BOOLEAN :
          calls < MaxCalls /\ BackwardStart(v, retain)
    \/ BackwardLoop
    \/ BackwardReturn

GraphSpec == Init /\ [][GraphNext]_vars

\* a graph of up to MaxTermNodes Variables and one backward call on it
TermNext ==
    \/ \E d \in LeafData : Len(V) < MaxTermNodes /\ NewVariable(d)
    \/ \E kind \in {"Square", "Add"} : \E inputs \in Inputs(kind) :
          Len(V) < MaxTermNodes /\ Call(kind, inputs)
    \/ \E v \in 1..Len(V) : \E retain \in BOOLEAN :
          calls = 0 /\ BackwardStart(v, retain)
    \/ BackwardLoop
    \/ BackwardReturn

\* backward is straight-line sequential code: once called it keeps running
TermSpec ==
    /\ Init
    /\ [][TermNext]_vars
    /\ WF_vars(BackwardLoop)
    /\ WF_vars(BackwardReturn)

\* ---- notions the properties are stated with -------------------------------
Last(s) == s[Len(s)]

\* the Functions reachable from Function f through inputs and creators
RECURSIVE ReachF(_)
ReachF(f) ==
    {f} \cup UNION {ReachF(V[F[f].inputs[i]].creator) :
                       i \in {j \in DOMAIN F[f].inputs :
                                 V[F[f].inputs[j]].creator # None}}

\* the Functions reachable from the terminal node of the backward call
Reachable ==
    IF self \in DOMAIN V /\ V[self].creator # None
    THEN ReachF(V[self].creator) ELSE {}

\* the Functions that consume an output of f
Consumers(f) ==
    {g \in DOMAIN F : \E i \in DOMAIN F[g].inputs :
                         F[g].inputs[i] \in Range(F[f].outputs)}

\* the input slots <<g, i>> of reachable Functions that hold Variable v
Slots(v) ==
    {p \in Reachable \X {1, 2} :
        p[2] \in DOMAIN F[p[1]].inputs /\ F[p[1]].inputs[p[2]] = v}

\* d output / d input of Function g at its recorded input values
Local(g) == IF F[g].kind = "Square" THEN 2 * V[F[g].inputs[1]].data ELSE 1

\* the derivative of the terminal node by Variable v, summed over all paths
RECURSIVE Total(_), SumSlots(_)
Total(v) == (IF v = self THEN 1 ELSE 0) + SumSlots(Slots(v))
SumSlots(S) ==
    IF S = {} THEN 0
    ELSE LET p == CHOOSE q \in S : TRUE
         IN  Local(p[1]) * Total(F[p[1]].outputs[1]) + SumSlots(S \ {p})

\* the step is an iteration of the while loop of backward
Popped == pc = "loop" /\ processed' # processed

\* ---- C1 -------------------------------------------------------------------
\* C1: every pop of the worklist removes a Function whose priority is the
\* maximum of the priorities in the worklist at that moment, so of two
\* Functions in the worklist the one of higher priority is processed first.
C1_PopsMaxPriority ==
    [][Popped => \A g \in Range(funcs) :
                    F[g].priority <= F[Last(processed')].priority]_vars

\* two Functions of different priority wait in the worklist after a pop
C1_Witness ==
    /\ pc = "loop"
    /\ processed # << >>
    /\ Len(funcs) >= 2
    /\ F[funcs[1]].priority < F[Last(funcs)].priority

\* ---- C2 -------------------------------------------------------------------
\* C2: a Function is processed only after every reachable Function that
\* consumes one of its outputs, and, on gradients that were all unset when
\* backward was called, the output gradient the next Function to be popped
\* will read is the sum of the contributions of all paths from the terminal.
C2_ConsumersFirst ==
    /\ \A k \in DOMAIN processed :
          \A g \in Consumers(processed[k]) \cap Reachable :
             \E j \in 1..(k - 1) : processed[j] = g
    /\ (pc = "loop" /\ funcs # << >> /\ calls = 1) =>
          \A i \in DOMAIN F[Last(funcs)].outputs :
             V[F[Last(funcs)].outputs[i]].grad =
                <<Total(F[Last(funcs)].outputs[i])>>

\* a Function whose output feeds two different reachable Functions has been
\* processed
C2_Witness ==
    /\ pc = "done"
    /\ calls = 1
    /\ \E k \in DOMAIN processed :
          Cardinality(Consumers(processed[k]) \cap Reachable) >= 2

\* ---- C3 -------------------------------------------------------------------
\* C3: in the diamond t = square(x), y = add(square(t), square(t)), after
\* y.backward() x.grad is 8 * x^3, the derivative of 2 * x^4.
C3_DiamondGradient ==
    (pc = "done" /\ self = 5) =>
        V[1].grad = <<8 * V[1].data * V[1].data * V[1].data>>

\* backward has returned on the diamond over a non-zero x
C3_Witness ==
    /\ pc = "done"
    /\ self = 5
    /\ V[1].data = 0 - 3
    /\ V[1].grad = <<0 - 216>>
    /\ F[4].inputs = <<3, 4>>
    /\ F[2].inputs = <<2>>
    /\ F[3].inputs = <<2>>

\* ---- C4 -------------------------------------------------------------------
\* C4 as stated: for x = 2 the diamond gives t.data = 4, y.data = 32 and
\* x.grad = 96.
C4_Original ==
    (pc = "done" /\ self = 5 /\ V[1].data = 2) =>
        /\ V[2].data = 4
        /\ V[5].data = 32
        /\ V[1].grad = <<96>>

\* C4 amended: for x = 2 the diamond gives t.data = 4, y.data = 32 and
\* x.grad = 64.
C4_Golden ==
    (pc = "done" /\ self = 5 /\ V[1].data = 2) =>
        /\ V[2].data = 4
        /\ V[5].data = 32
        /\ V[1].grad = <<64>>

\* backward has returned on the diamond over x = 2
C4_Witness ==
    /\ pc = "done"
    /\ self = 5
    /\ V[1].data = 2
    /\ ~retain_grad

\* ---- C5 -------------------------------------------------------------------
\* C5: whenever a using_config scope is left, normally or by an exception,
\* the flag is again what it was before the scope was entered: the value of
\* the enclosing scope, or the default when there is none.
C5_ScopeRestores ==
    [][Len(scopes') < Len(scopes) =>
          enable_backprop' = IF scopes' = << >> THEN TRUE
                             ELSE Last(scopes').value]_vars

\* an exception has left an inner scope and is inside an enclosing no_grad
C5_Witness ==
    /\ exc
    /\ unwound >= 1
    /\ scopes # << >>
    /\ Last(scopes).value = FALSE
    /\ enable_backprop = FALSE

\* ---- C6 -------------------------------------------------------------------
\* C6: an operation invoked while the flag is disabled returns a Variable
\* with no creator and priority 0, and its Function records no inputs, no
\* outputs and no priority.
C6_NoGradLeavesNoTrace ==
    [][(~enable_backprop /\ Len(F') = Len(F) + 1) =>
          /\ Len(V') = Len(V) + 1
          /\ Last(V').creator = None
          /\ Last(V').priority = 0
          /\ Last(F').inputs = << >>
          /\ Last(F').outputs = << >>
          /\ Last(F').priority = NoAttr]_vars

\* under no_grad an operation was applied to a Variable that has a creator
C6_Witness ==
    /\ ~enable_backprop
    /\ Len(V) = 3
    /\ Len(F) = 2
    /\ V[1].data = DemoData
    /\ V[2].data = 4
    /\ V[2].creator = 1
    /\ V[2].priority = 1
    /\ V[3].data = 16
    /\ F[2].priority = NoAttr

\* ---- C7 -------------------------------------------------------------------
\* C7: in every reachable state a Function that recorded its call has the
\* maximum of its inputs' priorities as priority, and each of its outputs has
\* that priority plus one and the Function as creator.
C7_PriorityInvariant ==
    \A f \in DOMAIN F :
        F[f].priority # NoAttr =>
            /\ F[f].inputs # << >>
            /\ \A i \in DOMAIN F[f].inputs :
                  V[F[f].inputs[i]].priority <= F[f].priority
            /\ \E i \in DOMAIN F[f].inputs :
                  V[F[f].inputs[i]].priority = F[f].priority
            /\ F[f].outputs # << >>
            /\ \A i \in DOMAIN F[f].outputs :
                  /\ V[F[f].outputs[i]].priority = F[f].priority + 1
                  /\ V[F[f].outputs[i]].creator = f

\* an add of inputs of different priority, after a backward call and inside
\* a scope
C7_Witness ==
    /\ pc = "done"
    /\ scopes # << >>
    /\ \E f \in DOMAIN F :
          /\ F[f].kind = "Add"
          /\ F[f].priority = 1
          /\ V[F[f].inputs[1]].priority # V[F[f].inputs[2]].priority

\* ---- C8 -------------------------------------------------------------------
\* C8: backward on a Variable without creator and with unset gradient sets
\* the gradient to ones and returns normally, changing nothing else.
C8_LeafBackwardReturns ==
    [][(pc # "loop" /\ calls' = calls + 1
          /\ V[self'].creator = None /\ V[self'].grad = NoGrad) =>
          /\ pc' = "done"
          /\ ~exc'
          /\ V' = [V EXCEPT ![self'].grad = <<1>>]
          /\ F' = F
          /\ enable_backprop' = enable_backprop
          /\ scopes' = scopes]_vars

\* ---- C9 -------------------------------------------------------------------
\* C9: a backward call on a node with a creator returns, after at most as
\* many iterations as there are Functions reachable from the node.
C9_Terminates ==
    /\ [](pc \in {"loop", "done"} => Len(processed) <= Cardinality(Reachable))
    /\ (pc = "loop") ~> (pc = "done")

\* backward has returned from y = add(t, t), where the creator of t is reached
\* twice, after as many iterations as there are reachable Functions
C9_Witness ==
    /\ pc = "done"
    /\ F[V[self].creator].kind = "Add"
    /\ F[V[self].creator].inputs[1] = F[V[self].creator].inputs[2]
    /\ V[F[V[self].creator].inputs[1]].creator # None
    /\ Len(processed) = 2
    /\ Cardinality(Reachable) = 2

\* ---- C10 ------------------------------------------------------------------
\* C10: when a Function is popped from the worklist, the gradient of each of
\* its outputs is set.
C10_OutputGradsSet ==
    [][Popped => \A i \in DOMAIN F[Last(funcs)].outputs :
                    V[F[Last(funcs)].outputs[i]].grad # NoGrad]_vars

\* a backward call that clears the gradients it has used has popped three
\* Functions, one of them with two inputs
C10_Witness ==
    /\ pc = "done"
    /\ ~retain_grad
    /\ Len(processed) >= 3
    /\ F[processed[1]].kind = "Add"
    /\ V[self].grad = NoGrad

\* ---- further notions ------------------------------------------------------
\* the Variables the terminal node of the backward call depends on
AncestorVars == UNION {Range(F[g].inputs) : g \in Reachable}

\* those of them that no Function created
LeafAncestors == {v \in AncestorVars : V[v].creator = None}

\* every gradient was unset when backward was called
FreshStart == \A i \in DOMAIN start : start[i] = NoGrad

\* ---- C11 ------------------------------------------------------------------
\* C11: after backward on gradients that were all unset, with retain_grad
\* false the outputs of all processed Functions (the terminal node and its
\* non-leaf ancestors) have no gradient and every leaf ancestor has one; with
\* retain_grad true the terminal node and every ancestor have a gradient.
C11_RetainGrad ==
    (pc = "done" /\ FreshStart) =>
        IF retain_grad
        THEN \A v \in AncestorVars \cup {self} : V[v].grad # NoGrad
        ELSE /\ V[self].grad = NoGrad
             /\ \A g \in Range(processed) : \A i \in DOMAIN F[g].outputs :
                   V[F[g].outputs[i]].grad = NoGrad
             /\ \A v \in AncestorVars \ LeafAncestors : V[v].grad = NoGrad
             /\ \A v \in LeafAncestors : V[v].grad # NoGrad

\* backward without retain_grad has returned on a graph with a non-leaf
\* ancestor and a leaf ancestor
C11_Witness ==
    /\ pc = "done"
    /\ FreshStart
    /\ ~retain_grad
    /\ AncestorVars \ LeafAncestors # {}
    /\ LeafAncestors # {}
    /\ Len(processed) >= 2

\* ---- C12 ------------------------------------------------------------------
\* C12: a Variable created by the user starts with no creator and priority 0,
\* and no step changes the creator or the priority of a Variable that has no
\* creator and priority 0.
C12_LeavesStayLeaves ==
    [][/\ (Len(V') = Len(V) + 1 /\ Len(F') = Len(F)) =>
              (Last(V').creator = None /\ Last(V').priority = 0)
       /\ \A v \in DOMAIN V :
              (V[v].creator = None /\ V[v].priority = 0) =>
                  /\ v \in DOMAIN V'
                  /\ V'[v].creator = None
                  /\ V'[v].priority = 0]_vars

\* the first Variable, created by the user, has been the input of a recorded
\* operation and has received a gradient from a backward call
C12_Witness ==
    /\ pc = "done"
    /\ 1 \in AncestorVars
    /\ V[1].creator = None
    /\ V[1].priority = 0
    /\ V[1].grad # NoGrad

\* ---- C13 ------------------------------------------------------------------
\* C13: on every Variable, with its gradient set or unset, cleargrad leaves
\* the gradient unset, a second cleargrad leaves the Variable as the first
\* one did, and a cleargrad step changes nothing else and raises nothing.
C13_ClearGradIdempotent ==
    [][/\ \A v \in DOMAIN V :
              /\ cleargrad(V[v]).grad = NoGrad
              /\ cleargrad(cleargrad(V[v])).grad = NoGrad
              /\ cleargrad(cleargrad(V[v])) = cleargrad(V[v])
              /\ cleargrad(V[v]) = [V[v] EXCEPT !.grad = NoGrad]
       /\ (pc' = "idle" /\ Len(V') = Len(V) /\ V' # V) =>
              /\ \E v \in DOMAIN V :
                    V' = [V EXCEPT ![v] = cleargrad(cleargrad(V[v]))]
              /\ exc' = exc
              /\ F' = F]_vars

\* after a backward call has set gradients, cleargrad calls have unset all of
\* them
C13_Witness ==
    /\ pc = "idle"
    /\ ~exc
    /\ calls = 1
    /\ Len(F) >= 1
    /\ \A v \in DOMAIN V : V[v].grad = NoGrad

\* ---- C14 ------------------------------------------------------------------
\* C14: in one backward call no Function is enqueued or processed twice, only
\* reachable Functions are, and when the call returns every reachable
\* Function has been processed.
C14_ExactlyOnce ==
    (pc \in {"loop", "done"}) =>
        /\ \A i, j \in DOMAIN processed : processed[i] = processed[j] => i = j
        /\ \A i, j \in DOMAIN funcs : funcs[i] = funcs[j] => i = j
        /\ Range(processed) \cap Range(funcs) = {}
        /\ Range(processed) \cup Range(funcs) = seen_set
        /\ seen_set \subseteq Reachable
        /\ pc = "done" => Range(processed) = Reachable

\* backward has returned on a graph in which a Variable with a creator fills
\* two input slots of reachable Functions
C14_Witness ==
    /\ pc = "done"
    /\ \E v \in AncestorVars :
          V[v].creator # None /\ Cardinality(Slots(v)) >= 2

\* ---- C15 ------------------------------------------------------------------
\* x = Variable(np.array(x0)); with no_grad(): t = f(x); y = g(t);
\* y.backward(retain_grad), for f and g among square(v) and add(v, v)
NoGradNext ==
    \/ Len(V) = 1 /\ Len(F) = 0 /\ scopes = << >> /\ EnterScope(FALSE)
    \/ \E kind \in {"Square", "Add"} :
          /\ Len(V) = 1
          /\ scopes # << >>
          /\ Call(kind, IF kind = "Square" THEN <<1>> ELSE <<1, 1>>)
    \/ Len(V) = 2 /\ ExitScope
    \/ \E kind \in {"Square", "Add"} :
          /\ Len(V) = 2
          /\ scopes = << >>
          /\ Call(kind, IF kind = "Square" THEN <<2>> ELSE <<2, 2>>)
    \/ \E retain \in BOOLEAN :
          Len(V) = 3 /\ calls = 0 /\ BackwardStart(3, retain)
    \/ BackwardLoop
    \/ BackwardReturn

NoGradSpec == DiamondInit /\ [][NoGradNext]_vars

\* C15: when t is computed from x under no_grad and y from t with the flag
\* enabled, y.backward() processes only the creator of y, sets t.grad to the
\* derivative of y by t, treats t as a leaf and leaves x.grad unset.
C15_NoGradCutsBackward ==
    (pc = "done") =>
        /\ processed = <<2>>
        /\ V[2].creator = None
        /\ LeafAncestors = {2}
        /\ V[2].grad = <<Total(2)>>
        /\ V[1].grad = NoGrad

\* backward has returned for t = square(x) under no_grad, y = square(t), x = 3
C15_Witness ==
    /\ pc = "done"
    /\ F[1].kind = "Square"
    /\ F[2].kind = "Square"
    /\ V[1].data = 3
    /\ V[2].data = 9
    /\ V[3].data = 81
    /\ V[2].grad = <<18>>
    /\ V[1].grad = NoGrad

\* ---- C16 ------------------------------------------------------------------
\* C16: a step that invokes an operation adds one Variable and leaves every
\* existing Variable as it was, and the gradient of a Variable changes only
\* in a step of backward or in a cleargrad of that Variable.
C16_ForwardFrame ==
    [][/\ Len(F') = Len(F) + 1 =>
              /\ Len(V') = Len(V) + 1
              /\ \A v \in DOMAIN V : V'[v] = V[v]
       /\ \A v \in DOMAIN V :
              (v \in DOMAIN V' /\ V'[v].grad # V[v].grad) =>
                  \/ pc = "loop"
                  \/ calls' = calls + 1
                  \/ V' = [V EXCEPT ![v].grad = NoGrad]]_vars

\* with the flag disabled and with it enabled an operation has been invoked,
\* and the first Variable holds a gradient
C16_Witness ==
    /\ pc = "idle"
    /\ calls = 1
    /\ ~enable_backprop
    /\ Len(F) = 2
    /\ F[1].priority # NoAttr
    /\ F[2].priority = NoAttr
    /\ V[1].grad # NoGrad

\* ---- C17 ------------------------------------------------------------------
\* C17: a step of a backward call leaves the Functions, the flag and the
\* scopes unchanged, creates no Variable, and changes of a Variable at most
\* the gradient, and that only for the terminal node and its ancestors.
C17_BackwardFrame ==
    [][(pc = "loop" \/ calls' = calls + 1) =>
          /\ F' = F
          /\ enable_backprop' = enable_backprop
          /\ scopes' = scopes
          /\ DOMAIN V' = DOMAIN V
          /\ \A v \in DOMAIN V :
                /\ V'[v].data = V[v].data
                /\ V'[v].creator = V[v].creator
                /\ V'[v].priority = V[v].priority
                /\ v \notin (AncestorVars' \cup {self'}) =>
                      V'[v].grad = V[v].grad]_vars

\* inside a scope a backward call has returned on a graph that also holds a
\* Variable that is neither the terminal node nor one of its ancestors
C17_Witness ==
    /\ pc = "done"
    /\ scopes # << >>
    /\ Len(processed) >= 1
    /\ DOMAIN V \ (AncestorVars \cup {self}) # {}

\* ---- C18 ------------------------------------------------------------------
\* C18: after backward on gradients that were all unset, the gradient of
\* every leaf ancestor is the derivative of the terminal node by it, whatever
\* retain_grad is; retain_grad only decides whether the terminal node and its
\* non-leaf ancestors keep their gradient or have none.
C18_RetainGradLeavesEqual ==
    (pc = "done" /\ FreshStart) =>
        /\ \A v \in LeafAncestors : V[v].grad = <<Total(v)>>
        /\ \A v \in (AncestorVars \ LeafAncestors) \cup {self} :
              V[v].grad = IF retain_grad THEN <<Total(v)>> ELSE NoGrad

\* backward with retain_grad has returned on a graph in which a leaf is
\* reached through two input slots and a non-leaf ancestor kept its gradient
C18_Witness ==
    /\ pc = "done"
    /\ FreshStart
    /\ retain_grad
    /\ \E v \in LeafAncestors : Cardinality(Slots(v)) >= 2
    /\ \E v \in AncestorVars \ LeafAncestors : V[v].grad # NoGrad

\* ---- C19 ------------------------------------------------------------------
\* a graph of up to MaxTwiceNodes Variables with y its last node, then
\* y.backward(), any cleargrad calls, and y.backward() again
TwiceNext ==
    \/ \E d \in LeafData :
          calls = 0 /\ Len(V) < MaxTwiceNodes /\ NewVariable(d)
    \/ \E kind \in {"Square", "Add"} : \E inputs \in Inputs(kind) :
          calls = 0 /\ Len(V) < MaxTwiceNodes /\ Call(kind, inputs)
    \/ /\ calls < 2
       /\ Len(V) >= 1
       /\ V[Len(V)].creator # None
       /\ BackwardStart(Len(V), FALSE)
    \/ \E v \in 1..Len(V) : calls = 1 /\ ClearGrad(v)
    \/ BackwardLoop
    \/ BackwardReturn

TwiceSpec == Init /\ [][TwiceNext]_vars

\* C19: after the first y.backward() every leaf ancestor holds the derivative
\* of y by it; after a second y.backward() a leaf ancestor that was not
\* cleared in between holds twice that value, and one that was cleared holds
\* that value again.
C19_LeafGradsAccumulate ==
    /\ (pc = "done" /\ calls = 1) =>
          \A v \in LeafAncestors : V[v].grad = <<Total(v)>>
    /\ (pc = "done" /\ calls = 2) =>
          \A v \in LeafAncestors :
             /\ start[v] \in {NoGrad, <<Total(v)>>}
             /\ V[v].grad = IF start[v] = NoGrad THEN <<Total(v)>>
                            ELSE <<2 * Total(v)>>

\* the second backward call has returned; one leaf was cleared between the
\* calls and holds the single-call gradient, another was not and holds twice
\* its single-call gradient
C19_Witness ==
    /\ pc = "done"
    /\ calls = 2
    /\ \E v, w \in LeafAncestors :
          /\ start[v] = NoGrad
          /\ V[v].grad = <<Total(v)>>
          /\ start[w] = <<Total(w)>>
          /\ V[w].grad = <<2 * Total(w)>>
          /\ Total(w) # 0

====
